---- MODULE Spec2Model ----
(***************************************************************************)
(* A model of twpost: the OCR-text parser and the tweets table of          *)
(* tweet_db.py, the Chrome bootstrap of chrome_utils.py / v2post.py and    *)
(* the page-driving commands of twfeed.py, twpost.py and v2post.py.        *)
(*                                                                         *)
(* Text is modelled as a sequence of characters, each character a          *)
(* one-character string; a character outside ASCII is written by its code  *)
(* point ("u00B7" is the middle dot).  None is modelled per type and said   *)
(* where it is used.                                                       *)
(***************************************************************************)
EXTENDS Integers, Sequences, FiniteSets, TLC

VARIABLES
    \* ---- parse_ocr_to_tweets (tweet_db.py) ----
    ocr_text,       \* the argument of the running call
    lines,          \* ocr_text.strip().split("\n")
    i,              \* loop index (1-based here, 0-based in the source)
    current_tweet,  \* <<>> is None, <<t>> is the Tweet t
    content_lines,
    tweets,
    ppc,            \* "idle" | "called" | "loop" | "done"
    stat_hist,      \* history: the counts of the current record's numeric lines
    history,        \* history: <<input, result>> of every finished call
    ncalls,
    \* ---- the commands that drive Chrome (chrome_utils, twfeed, twpost, v2post) ----
    cmd,            \* the running command and its arguments
    bpc,            \* its position
    result,         \* "none" | "True" | "False" | "None" | "str" | "raise"
    ensured,        \* what ensure_chrome_cdp returned: "none" | "True" | "False"
    port_open,      \* whether the debug port accepts connections now
    kills,          \* pkill runs of the running command
    launches,       \* Chrome launches of the running command
    polls,          \* the port checks of the wait loop, in order
    entry_open,     \* history: what the port check at entry found
    page,           \* "none" | "open" | "closed"
    marked,         \* per control: the page shows unlike / removeBookmark
    clicks,         \* clicks of the running command on like/unlike/send/submit
    filled,         \* the text is in the editor
    attached,       \* the image is attached
    ncmds,
    feed_text,      \* the str capture_feed returns, <<>> when it returns none
    exit_code,      \* the exit status of the last command line, None before
    trace,          \* history: what the running command did to the browser
    prev,           \* history: the command line before the running one
    \* ---- the tweets table (tweet_db.py) ----
    table,          \* the committed rows
    txn,            \* the rows as the open transaction sees them
    conn,           \* "none" | "open" | "broken" | "closed"
    dcall,          \* the running call and its arguments
    dpc,            \* its position
    dresult,        \* "none" | "int" | "True" | "False" | "raise"
    saved,          \* the int save_tweets returns
    rowcount,       \* cur.rowcount
    next_id,        \* the id sequence of the table
    now,            \* NOW()
    before,         \* history: the table when the running call began
    connects,       \* history: connections the running call made
    faulted,        \* history: the database failed the running call
    unique_index,   \* the table has a unique index on tweet_id
    ndb

parseVars == <<ocr_text, lines, i, current_tweet, content_lines, tweets, ppc,
               stat_hist, history, ncalls>>

chromeVars == <<cmd, bpc, result, ensured, port_open, kills, launches, polls,
                entry_open, page, marked, clicks, filled, attached, ncmds,
                feed_text, exit_code, trace, prev>>

dbVars == <<table, txn, conn, dcall, dpc, dresult, saved, rowcount, next_id,
            now, before, connects, faulted, unique_index, ndb>>

vars == <<parseVars, chromeVars, dbVars>>

(***************************************************************************)
(* Bounds of the model.                                                    *)
(***************************************************************************)
MaxLines == 3       \* lines of an OCR text
MaxCalls == 3       \* successive parse_ocr_to_tweets calls
MaxCmds == 2        \* successive command lines
MaxDbCalls == 2     \* successive calls on the tweets table

(***************************************************************************)
(* Characters and the str methods the parser uses.                         *)
(***************************************************************************)
DigitSeq == <<"0", "1", "2", "3", "4", "5", "6", "7", "8", "9">>
UpperSeq == <<"A", "B", "C", "D", "E", "F", "G", "H", "I", "J", "K", "L", "M",
              "N", "O", "P", "Q", "R", "S", "T", "U", "V", "W", "X", "Y", "Z">>
LowerSeq == <<"a", "b", "c", "d", "e", "f", "g", "h", "i", "j", "k", "l", "m",
              "n", "o", "p", "q", "r", "s", "t", "u", "v", "w", "x", "y", "z">>

Range(s) == { s[k] : k \in 1..Len(s) }

Digits == Range(DigitSeq)
Upper == Range(UpperSeq)
Lower == Range(LowerSeq)

\* the characters str.strip() removes and \s matches (those of the alphabet)
Whitespace == {" ", "\t", "\n", "\r"}

RECURSIVE LStrip(_)
LStrip(s) == IF s # <<>> /\ Head(s) \in Whitespace THEN LStrip(Tail(s)) ELSE s

RECURSIVE RStrip(_)
RStrip(s) ==
    IF s # <<>> /\ s[Len(s)] \in Whitespace
    THEN RStrip(SubSeq(s, 1, Len(s) - 1))
    ELSE s

\* str.strip()
Strip(s) == RStrip(LStrip(s))

\* str.split("\n"): always at least one element
RECURSIVE SplitLines(_)
SplitLines(s) ==
    IF \E k \in 1..Len(s) : s[k] = "\n"
    THEN LET k == CHOOSE n \in 1..Len(s) :
                      s[n] = "\n" /\ \A j \in 1..(n - 1) : s[j] # "\n"
         IN  <<SubSeq(s, 1, k - 1)>> \o SplitLines(SubSeq(s, k + 1, Len(s)))
    ELSE <<s>>

\* "\n".join(ls)
RECURSIVE JoinLines(_)
JoinLines(ls) ==
    IF ls = <<>> THEN <<>>
    ELSE IF Len(ls) = 1 THEN ls[1]
    ELSE ls[1] \o <<"\n">> \o JoinLines(Tail(ls))

\* str.upper() on the letters of the alphabet
UpperChar(c) ==
    IF c \in Lower
    THEN UpperSeq[CHOOSE k \in 1..Len(LowerSeq) : LowerSeq[k] = c]
    ELSE c

ToUpper(s) == [k \in 1..Len(s) |-> UpperChar(s[k])]

\* str.replace(c, "")
RECURSIVE RemoveChar(_, _)
RemoveChar(s, c) ==
    IF s = <<>> THEN <<>>
    ELSE IF Head(s) = c THEN RemoveChar(Tail(s), c)
    ELSE <<Head(s)>> \o RemoveChar(Tail(s), c)

(***************************************************************************)
(* parse_count.  None is -1: a count is never negative, the numeric        *)
(* pattern admits no sign.  float() is modelled on the shapes the numeric  *)
(* pattern lets through (digits with at most one "."), with exact decimal  *)
(* arithmetic; int() truncates.                                            *)
(***************************************************************************)
None == -1

DigitVal(c) == (CHOOSE k \in 1..Len(DigitSeq) : DigitSeq[k] = c) - 1

RECURSIVE Pow10(_)
Pow10(n) == IF n = 0 THEN 1 ELSE 10 * Pow10(n - 1)

RECURSIVE DigitsVal(_)
DigitsVal(s) ==
    IF s = <<>> THEN 0
    ELSE DigitsVal(SubSeq(s, 1, Len(s) - 1)) * 10 + DigitVal(s[Len(s)])

\* float(s) succeeds: digits around at most one ".", at least one digit
IsFloat(s) ==
    /\ \A k \in 1..Len(s) : s[k] \in Digits \cup {"."}
    /\ Cardinality({k \in 1..Len(s) : s[k] = "."}) <= 1
    /\ \E k \in 1..Len(s) : s[k] \in Digits

\* int(float(s) * mult), for IsFloat(s)
ScaledInt(s, mult) ==
    LET dots == {k \in 1..Len(s) : s[k] = "."}
        d    == IF dots = {} THEN Len(s) + 1 ELSE CHOOSE k \in dots : TRUE
        ip   == SubSeq(s, 1, d - 1)
        fp   == SubSeq(s, d + 1, Len(s))
    IN  DigitsVal(ip) * mult + (DigitsVal(fp) * mult) \div Pow10(Len(fp))

parse_count(text) ==
    IF text = <<>> THEN None
    ELSE LET t == RemoveChar(ToUpper(Strip(text)), ",")
         IN  IF "K" \in Range(t)
             THEN IF IsFloat(RemoveChar(t, "K"))
                  THEN ScaledInt(RemoveChar(t, "K"), 1000) ELSE None
             ELSE IF "M" \in Range(t)
             THEN IF IsFloat(RemoveChar(t, "M"))
                  THEN ScaledInt(RemoveChar(t, "M"), 1000000) ELSE None
             ELSE IF IsFloat(t) THEN ScaledInt(t, 1) ELSE None

(***************************************************************************)
(* The regular expressions of parse_ocr_to_tweets.                         *)
(***************************************************************************)
HandleChars == Upper \cup Lower \cup Digits \cup {"_"}

\* handle_pattern.search(line): the position of the first "@" that a handle
\* character follows, 0 when there is none
HandleSearch(line) ==
    LET hits == {k \in 1..(Len(line) - 1) :
                    line[k] = "@" /\ line[k + 1] \in HandleChars}
    IN  IF hits = {} THEN 0
        ELSE CHOOSE k \in hits : \A j \in hits : k <= j

\* handle_match.group(1): the longest run of handle characters after the "@"
HandleGroup(line) ==
    LET k  == HandleSearch(line)
        ends == {e \in (k + 1)..Len(line) :
                    /\ \A j \in (k + 1)..e : line[j] \in HandleChars
                    /\ (e = Len(line) \/ line[e + 1] \notin HandleChars)}
    IN  SubSeq(line, k + 1, CHOOSE e \in ends : TRUE)

\* handle_pattern.match(line): the pattern at the start of the line
HandleMatch(line) ==
    Len(line) >= 2 /\ line[1] = "@" /\ line[2] \in HandleChars

\* stats_pattern  ^[\d,.]+[KMkm]?$
StatsMatch(line) ==
    LET body == Digits \cup {",", "."}
        n    == Len(line)
    IN  /\ n >= 1
        /\ \A k \in 1..(n - 1) : line[k] \in body
        /\ \/ line[n] \in body
           \/ n >= 2 /\ line[n] \in {"K", "M", "k", "m"}

AllDigits(s) == s # <<>> /\ \A k \in 1..Len(s) : s[k] \in Digits

\* time_pattern  ^\d+[hms]$ | ^\d+<u5C0F u65F6>$ | ^[A-Z][a-z]{2}\s+\d+$ |
\*               ^\d{1,2}<u6708>\d{1,2}<u65E5>$
TimeMatch(line) ==
    LET n == Len(line)
    IN  \/ /\ n >= 2
           /\ AllDigits(SubSeq(line, 1, n - 1))
           /\ line[n] \in {"h", "m", "s"}
        \/ /\ n >= 3
           /\ AllDigits(SubSeq(line, 1, n - 2))
           /\ line[n - 1] = "u5C0F" /\ line[n] = "u65F6"
        \/ /\ n >= 5
           /\ line[1] \in Upper /\ line[2] \in Lower /\ line[3] \in Lower
           /\ \E j \in 4..(n - 1) :
                /\ \A k \in 4..j : line[k] \in Whitespace
                /\ AllDigits(SubSeq(line, j + 1, n))
        \/ \E a \in 1..2, b \in 1..2 :
                /\ n = a + b + 2
                /\ AllDigits(SubSeq(line, 1, a))
                /\ line[a + 1] = "u6708"
                /\ AllDigits(SubSeq(line, a + 2, a + b + 1))
                /\ line[n] = "u65E5"

\* the tokens skipped at the top of the loop (a blank line is skipped too)
FeedNoise ==
    { <<"F", "o", "l", "l", "o", "w", "i", "n", "g">>,
      <<"F", "o", "r", " ", "y", "o", "u">>,
      <<"S", "h", "o", "w", " ", "m", "o", "r", "e">>,
      <<".", ".", ".">> }

\* the mutant of UiNoise: "Like" is missing from the list
UiNoiseNoLike ==
    { <<"R", "e", "p", "l", "y">>,
      <<"R", "e", "p", "o", "s", "t">>,
      <<"S", "h", "a", "r", "e">>,
      <<"B", "o", "o", "k", "m", "a", "r", "k">>,
      <<"V", "i", "e", "w", "s">>,
      <<"u56DE", "u590D">>, <<"u8F6C", "u63A8">>, <<"u559C", "u6B22">>,
      <<"u5206", "u4EAB">>, <<"u4E66", "u7B7E">>, <<"u6D4F", "u89C8">> }

\* the tokens kept out of the content
UiNoise ==
    { <<"R", "e", "p", "l", "y">>,
      <<"R", "e", "p", "o", "s", "t">>,
      <<"L", "i", "k", "e">>,
      <<"S", "h", "a", "r", "e">>,
      <<"B", "o", "o", "k", "m", "a", "r", "k">>,
      <<"V", "i", "e", "w", "s">>,
      <<"u56DE", "u590D">>, <<"u8F6C", "u63A8">>, <<"u559C", "u6B22">>,
      <<"u5206", "u4EAB">>, <<"u4E66", "u7B7E">>, <<"u6D4F", "u89C8">> }

(***************************************************************************)
(* The inputs of the parser.                                               *)
(***************************************************************************)
L_blank == <<>>
L_at    == <<"@", "a", "l">>
L_mid   == <<"B", "o", " ", "@", "c", "y">>
L_dot   == <<"D", "i", " ", "@", "e", "d", " ", "u00B7", " ", "3", "h">>
L_hi    == <<"h", "i">>
L_1_2K  == <<"1", ".", "2", "K">>
L_50    == <<"5", "0">>
L_456   == <<"4", "5", "6">>
L_1_2_3 == <<"1", ".", "2", ".", "3">>
L_3h    == <<"3", "h">>
L_like  == <<" ", "L", "i", "k", "e", " ">>
L_dots  == <<".", ".", ".">>

LineAlphabet ==
    { L_blank, L_at, L_mid, L_dot, L_hi, L_1_2K, L_50, L_456, L_1_2_3, L_3h,
      L_like, L_dots }

\* every text of at most MaxLines lines of the alphabet
Texts ==
    { JoinLines(ls) :
        ls \in UNION { [1..n -> LineAlphabet] : n \in 0..MaxLines } }

\* test_ocr of the module's own test
test_ocr ==
    JoinLines(<<
        <<>>,
        <<"A", "l", "b", "e", "r", "t", " ", "W", "a", "n", "g">>,
        <<"@", "t", "e", "s", "t", "_", "u", "s", "e", "r", " ",
          "u00B7", " ", "3", "h">>,
        <<"u8FD9", "u662F", "u4E00", "u6761", "u6D4B", "u8BD5",
          "u63A8", "u6587">>,
        <<"1", ".", "2", "K">>,
        <<"4", "5", "6">>,
        <<"1", "0", "K">>,
        <<>>,
        <<"A", "n", "o", "t", "h", "e", "r", " ", "U", "s", "e", "r">>,
        <<"@", "a", "n", "o", "t", "h", "e", "r", " ", "u00B7", " ",
          "5", "h">>,
        <<"A", "n", "o", "t", "h", "e", "r", " ", "t", "e", "s", "t",
          " ", "t", "w", "e", "e", "t", " ", "c", "o", "n", "t", "e",
          "n", "t", " ", "h", "e", "r", "e">>,
        <<"7", "8", "9">>,
        <<"1", "2", "3">>,
        <<"5", ".", "6", "K">>,
        <<>> >>)

\* the texts the successive calls are made on
SampleTexts ==
    { test_ocr,
      <<>>,
      JoinLines(<<L_at, L_hi, L_50, L_3h, L_like, L_dots>>),
      JoinLines(<<L_at, L_hi, L_50, L_hi, L_blank, L_mid, L_dots, L_hi,
                  L_456>>),
      JoinLines(<<L_dot, L_1_2_3, L_at, L_hi>>),
      JoinLines(<<L_at, L_hi, L_50, L_1_2K, L_456, L_50>>),
      JoinLines(<<L_mid, L_dot, L_hi, L_456, L_50, L_1_2K, L_like>>) }

(***************************************************************************)
(* parse_ocr_to_tweets, one action per branch of the loop body.            *)
(***************************************************************************)
nonParseVars == <<chromeVars, dbVars>>

\* SQL NULL and Python None, for the values modelled as strings
NULL == "NULL"

NoCmd == [name |-> "none", url |-> <<>>, reply_to |-> <<>>, image |-> "none",
          text |-> "none"]

\* what is remembered of a command line that has ended
NoPrev == [name |-> "none", url |-> <<>>, result |-> "none", clicks |-> 0,
           text |-> <<>>, marked |-> [like |-> FALSE, bookmark |-> FALSE]]

\* no command is running, and none has run
ChromeIdle ==
    /\ cmd = NoCmd
    /\ bpc = "idle"
    /\ result = "none"
    /\ ensured = "none"
    /\ port_open = FALSE
    /\ kills = 0
    /\ launches = 0
    /\ polls = <<>>
    /\ entry_open = FALSE
    /\ page = "none"
    /\ marked = [like |-> FALSE, bookmark |-> FALSE]
    /\ clicks = 0
    /\ filled = FALSE
    /\ attached = FALSE
    /\ ncmds = 0
    /\ feed_text = <<>>
    /\ exit_code = None
    /\ trace = <<>>
    /\ prev = NoPrev

NoCall == [name |-> "none", batch |-> <<>>, tweet_url |-> NULL, tweet_id |-> 0,
           flag |-> FALSE]

\* an empty table, no call running
DbIdle ==
    /\ table = <<>>
    /\ txn = <<>>
    /\ conn = "none"
    /\ dcall = NoCall
    /\ dpc = "idle"
    /\ dresult = "none"
    /\ saved = 0
    /\ rowcount = 0
    /\ next_id = 1
    /\ now = 0
    /\ before = <<>>
    /\ connects = 0
    /\ faulted = FALSE
    /\ unique_index = TRUE
    /\ ndb = 0

NewTweet(author, author_name) ==
    [author |-> author, author_name |-> author_name, content |-> <<>>,
     views |-> None, likes |-> None, retweets |-> None]

\* the line the loop looks at: lines[i].strip()
LineAt(ls, k) == Strip(ls[k])

IsSkipped(line) == line = <<>> \/ line \in FeedNoise

\* the mutant of IsHandleLine: an @handle after a blank line starts no tweet
IsHandleLineNoBlank(ls, k) ==
    LET line == LineAt(ls, k)
    IN  /\ ~IsSkipped(line)
        /\ HandleSearch(line) # 0
        /\ \/ line[1] = "@"
           \/ "u00B7" \in Range(line)

\* the test that starts a new tweet at line k of ls
IsHandleLine(ls, k) ==
    LET line == LineAt(ls, k)
    IN  /\ ~IsSkipped(line)
        /\ HandleSearch(line) # 0
        /\ \/ line[1] = "@"
           \/ "u00B7" \in Range(line)
           \/ k > 1 /\ Strip(ls[k - 1]) = <<>>

\* the mutant of Saved: the tweet being accumulated is added with whatever
\* content it has
SavedWhateverContent(tw, cur, cl) ==
    IF cur # <<>>
    THEN Append(tw, [cur[1] EXCEPT !.content = Strip(JoinLines(cl))])
    ELSE tw

\* "save the previous tweet": tweets with the tweet being accumulated added,
\* when there is one and it has content
Saved(tw, cur, cl) ==
    IF cur # <<>> /\ cl # <<>>
    THEN LET c == Strip(JoinLines(cl))
         IN  IF c # <<>> THEN Append(tw, [cur[1] EXCEPT !.content = c]) ELSE tw
    ELSE tw

InLoop == ppc = "loop" /\ i <= Len(lines)

\* the mutant of Begin: the result list is not emptied at the start of a call
BeginKeepsTweets ==
    /\ ppc = "called"
    /\ lines' = SplitLines(Strip(ocr_text))
    /\ current_tweet' = <<>>
    /\ content_lines' = <<>>
    /\ i' = 1
    /\ stat_hist' = <<>>
    /\ ppc' = "loop"
    /\ UNCHANGED <<ocr_text, tweets, history, ncalls, nonParseVars>>

\* the locals at the start of a call
Begin ==
    /\ ppc = "called"
    /\ tweets' = <<>>
    /\ lines' = SplitLines(Strip(ocr_text))
    /\ current_tweet' = <<>>
    /\ content_lines' = <<>>
    /\ i' = 1
    /\ stat_hist' = <<>>
    /\ ppc' = "loop"
    /\ UNCHANGED <<ocr_text, history, ncalls, nonParseVars>>

\* a blank line or a feed-noise token
SkipNoise ==
    /\ InLoop
    /\ IsSkipped(LineAt(lines, i))
    /\ i' = i + 1
    /\ UNCHANGED <<ocr_text, lines, current_tweet, content_lines, tweets, ppc,
                   stat_hist, history, ncalls, nonParseVars>>

\* a handle line: save the previous tweet, start a new one
StartTweet ==
    /\ InLoop
    /\ IsHandleLine(lines, i)
    /\ LET line == LineAt(lines, i)
           prev_line == IF i > 1 THEN Strip(lines[i - 1]) ELSE <<>>
           author_name ==
               IF /\ i > 1
                  /\ prev_line # <<>>
                  /\ ~HandleMatch(prev_line)
                  /\ ~StatsMatch(prev_line)
               THEN prev_line ELSE <<>>
       IN  /\ tweets' = Saved(tweets, current_tweet, content_lines)
           /\ current_tweet' =
                  <<NewTweet(<<"@">> \o HandleGroup(line), author_name)>>
    /\ content_lines' = <<>>
    /\ stat_hist' = <<>>
    /\ i' = i + 1
    /\ UNCHANGED <<ocr_text, lines, ppc, history, ncalls, nonParseVars>>

\* the mutant of Attribute: views takes the first count whatever its value
AttributeInOrder(t, count) ==
    IF t.views = None THEN [t EXCEPT !.views = count]
    ELSE IF t.likes = None THEN [t EXCEPT !.likes = count]
    ELSE IF t.retweets = None THEN [t EXCEPT !.retweets = count]
    ELSE t

\* the counter a count goes to
Attribute(t, count) ==
    IF t.views = None /\ count > 100 THEN [t EXCEPT !.views = count]
    ELSE IF t.likes = None THEN [t EXCEPT !.likes = count]
    ELSE IF t.retweets = None THEN [t EXCEPT !.retweets = count]
    ELSE t

\* a numeric line of a tweet
StatsLine ==
    /\ InLoop
    /\ ~IsSkipped(LineAt(lines, i))
    /\ ~IsHandleLine(lines, i)
    /\ current_tweet # <<>>
    /\ StatsMatch(LineAt(lines, i))
    /\ LET count == parse_count(LineAt(lines, i))
       IN  IF count # None
           THEN /\ current_tweet' = <<Attribute(current_tweet[1], count)>>
                /\ stat_hist' = Append(stat_hist, count)
           ELSE UNCHANGED <<current_tweet, stat_hist>>
    /\ i' = i + 1
    /\ UNCHANGED <<ocr_text, lines, content_lines, tweets, ppc, history,
                   ncalls, nonParseVars>>

\* a timestamp line
TimeLine ==
    /\ InLoop
    /\ ~IsSkipped(LineAt(lines, i))
    /\ ~IsHandleLine(lines, i)
    /\ ~(current_tweet # <<>> /\ StatsMatch(LineAt(lines, i)))
    /\ TimeMatch(LineAt(lines, i))
    /\ i' = i + 1
    /\ UNCHANGED <<ocr_text, lines, current_tweet, content_lines, tweets, ppc,
                   stat_hist, history, ncalls, nonParseVars>>

\* any other line: content of the tweet being accumulated, if it is no UI noise
ContentLine ==
    /\ InLoop
    /\ ~IsSkipped(LineAt(lines, i))
    /\ ~IsHandleLine(lines, i)
    /\ ~(current_tweet # <<>> /\ StatsMatch(LineAt(lines, i)))
    /\ ~TimeMatch(LineAt(lines, i))
    /\ content_lines' =
          IF current_tweet # <<>> /\ LineAt(lines, i) \notin UiNoise
          THEN Append(content_lines, LineAt(lines, i))
          ELSE content_lines
    /\ i' = i + 1
    /\ UNCHANGED <<ocr_text, lines, current_tweet, tweets, ppc, stat_hist,
                   history, ncalls, nonParseVars>>

\* after the loop: save the last tweet, return tweets
Finish ==
    /\ ppc = "loop"
    /\ i > Len(lines)
    /\ tweets' = Saved(tweets, current_tweet, content_lines)
    /\ ppc' = "done"
    /\ UNCHANGED <<ocr_text, lines, i, current_tweet, content_lines,
                   stat_hist, history, ncalls, nonParseVars>>

\* a caller calls parse_ocr_to_tweets(text)
Call(text) ==
    /\ ppc = "idle"
    /\ ncalls < MaxCalls
    /\ ocr_text' = text
    /\ ncalls' = ncalls + 1
    /\ ppc' = "called"
    /\ UNCHANGED <<lines, i, current_tweet, content_lines, tweets, stat_hist,
                   history, nonParseVars>>

\* the caller receives the list
Return ==
    /\ ppc = "done"
    /\ history' = Append(history, [input |-> ocr_text, result |-> tweets])
    /\ ppc' = "idle"
    /\ UNCHANGED <<ocr_text, lines, i, current_tweet, content_lines, tweets,
                   stat_hist, ncalls, nonParseVars>>

ParseIdle ==
    /\ lines = <<>>
    /\ i = 1
    /\ current_tweet = <<>>
    /\ content_lines = <<>>
    /\ tweets = <<>>
    /\ stat_hist = <<>>
    /\ history = <<>>
    /\ ncalls = 0

\* one call, on any short text of the alphabet or on a sample text
ParseInit ==
    /\ ocr_text \in Texts \cup SampleTexts
    /\ ppc = "called"
    /\ ParseIdle
    /\ ChromeIdle
    /\ DbIdle

ParseNext ==
    \/ Begin
    \/ SkipNoise
    \/ StartTweet
    \/ StatsLine
    \/ TimeLine
    \/ ContentLine
    \/ Finish

ParseSpec == ParseInit /\ [][ParseNext]_vars

\* successive calls, on the sample texts
CallsInit ==
    /\ ocr_text = <<>>
    /\ ppc = "idle"
    /\ ParseIdle
    /\ ChromeIdle
    /\ DbIdle

CallsNext ==
    \/ \E text \in SampleTexts : Call(text)
    \/ Begin
    \/ SkipNoise
    \/ StartTweet
    \/ StatsLine
    \/ TimeLine
    \/ ContentLine
    \/ Finish
    \/ Return

CallsSpec == CallsInit /\ [][CallsNext]_vars

(***************************************************************************)
(* The commands that drive Chrome.  What the world answers (the port, a    *)
(* process that cannot be run, a page action that fails, what the page     *)
(* shows) is chosen freely at every step that asks.                        *)
(***************************************************************************)
nonChromeVars == <<parseVars, dbVars>>

\* range(3): the port checks of the wait loop
PollTries == 3

MarkCmds == {"like", "bookmark"}
UnmarkCmds == {"unlike", "unbookmark"}

\* the control a command is about
Kind(name) == IF name \in {"like", "unlike"} THEN "like" ELSE "bookmark"

\* a Playwright call on the page: it returns, times out or raises otherwise
PageOutcomes == {"ok", "timeout", "error"}

U_status == <<"x", "/", "s", "t", "a", "t", "u", "s", "/", "1", "2">>
U_nodigit == <<"x", "/", "s", "t", "a", "t", "u", "s", "/">>
U_home == <<"x", "/", "a", "l">>

Urls == {U_status, U_nodigit, U_home}

\* re.search(r"/status/(\d+)", url): the digits, <<>> for None
extract_tweet_id(url) ==
    LET pre  == <<"/", "s", "t", "a", "t", "u", "s", "/">>
        hits == {k \in 1..(Len(url) - Len(pre)) :
                    /\ SubSeq(url, k, k + Len(pre) - 1) = pre
                    /\ url[k + Len(pre)] \in Digits}
    IN  IF hits = {} THEN <<>>
        ELSE LET k == (CHOOSE h \in hits : \A j \in hits : h <= j) + Len(pre)
                 e == CHOOSE n \in k..Len(url) :
                        /\ \A j \in k..n : url[j] \in Digits
                        /\ (n = Len(url) \/ url[n + 1] \notin Digits)
             IN  SubSeq(url, k, e)

\* the command lines, as main() has parsed them: chrome_utils, twfeed without
\* a subcommand (capture), like / unlike / bookmark / unbookmark URL, twpost
\* with the text missing, blank or given, v2post with a title or content that
\* is blank or not
Cmds ==
    {[name |-> n, url |-> <<>>, reply_to |-> <<>>, image |-> "none",
      text |-> "none"] : n \in {"ensure", "capture"}}
    \cup {[name |-> "v2post", url |-> <<>>, reply_to |-> <<>>,
           image |-> "none", text |-> t] : t \in {"blank", "ok"}}
    \cup {[name |-> n, url |-> u, reply_to |-> <<>>, image |-> "none",
           text |-> "none"] : n \in MarkCmds \cup UnmarkCmds, u \in Urls}
    \cup {[name |-> "post", url |-> <<>>, reply_to |-> r, image |-> im,
           text |-> "ok"] :
            r \in {<<>>} \cup Urls, im \in {"none", "exists", "missing"}}
    \cup {[name |-> "post", url |-> <<>>, reply_to |-> <<>>, image |-> "none",
           text |-> t] : t \in {"none", "blank"}}

\* a command line starts: main() parses it and calls the operation, unless the
\* text (twpost) or the title or content (v2post) is missing or blank
StartCmd(c) ==
    /\ bpc = "idle"
    /\ ncmds < MaxCmds
    /\ cmd' = c
    /\ ncmds' = ncmds + 1
    /\ bpc' = IF c.text = "blank" \/ (c.name = "post" /\ c.text = "none")
              THEN "done" ELSE "ec_entry"
    /\ result' = "none"
    /\ ensured' = "none"
    /\ kills' = 0
    /\ launches' = 0
    /\ polls' = <<>>
    /\ entry_open' = FALSE
    /\ page' = "none"
    /\ clicks' = 0
    /\ filled' = FALSE
    /\ attached' = FALSE
    /\ feed_text' = <<>>
    /\ trace' = <<>>
    /\ UNCHANGED <<port_open, marked, exit_code, prev, nonChromeVars>>

\* ---- ensure_chrome_cdp ----

\* the mutant of EcEntry: Chrome is restarted whatever the port check found
EcEntryRestarts ==
    /\ bpc = "ec_entry"
    /\ \E o \in BOOLEAN :
          /\ port_open' = o
          /\ entry_open' = o
          /\ trace' = Append(trace, IF o THEN "entry_open" ELSE "entry_closed")
          /\ ensured' = ensured
          /\ bpc' = "ec_kill"
    /\ UNCHANGED <<cmd, result, kills, launches, polls, page, marked, clicks,
                   filled, attached, ncmds, feed_text, exit_code, prev,
                   nonChromeVars>>

\* the port check at entry
EcEntry ==
    /\ bpc = "ec_entry"
    /\ \E o \in BOOLEAN :
          /\ port_open' = o
          /\ entry_open' = o
          /\ trace' = Append(trace, IF o THEN "entry_open" ELSE "entry_closed")
          /\ IF o
             THEN ensured' = "True" /\ bpc' = "ensured"
             ELSE ensured' = ensured /\ bpc' = "ec_kill"
    /\ UNCHANGED <<cmd, result, kills, launches, polls, page, marked, clicks,
                   filled, attached, ncmds, feed_text, exit_code, prev,
                   nonChromeVars>>

\* subprocess.run(["pkill", ...]); OSError when pkill cannot be run
EcKill ==
    /\ bpc = "ec_kill"
    /\ \E o \in {"ok", "raise"} :
          IF o = "ok"
          THEN /\ kills' = kills + 1
               /\ trace' = Append(trace, "kill")
               /\ bpc' = "ec_launch"
               /\ result' = result
          ELSE /\ kills' = kills
               /\ trace' = trace
               /\ bpc' = "done"
               /\ result' = "raise"
    /\ UNCHANGED <<cmd, ensured, port_open, launches, polls, entry_open, page,
                   marked, clicks, filled, attached, ncmds, feed_text,
                   exit_code, prev, nonChromeVars>>

\* subprocess.Popen(["google-chrome", ...]); OSError when it cannot be run
EcLaunch ==
    /\ bpc = "ec_launch"
    /\ \E o \in {"ok", "raise"} :
          IF o = "ok"
          THEN /\ launches' = launches + 1
               /\ trace' = Append(trace, "launch")
               /\ bpc' = "ec_poll"
               /\ result' = result
          ELSE /\ launches' = launches
               /\ trace' = trace
               /\ bpc' = "done"
               /\ result' = "raise"
    /\ UNCHANGED <<cmd, ensured, port_open, kills, polls, entry_open, page,
                   marked, clicks, filled, attached, ncmds, feed_text,
                   exit_code, prev, nonChromeVars>>

\* the mutant of EcPoll: Chrome is launched again after a check that failed
EcPollRelaunch ==
    /\ bpc = "ec_poll"
    /\ Len(polls) < PollTries
    /\ \E o \in BOOLEAN :
          /\ port_open' = o
          /\ polls' = Append(polls, o)
          /\ launches' = IF o THEN launches ELSE launches + 1
          /\ IF o THEN ensured' = "True" /\ bpc' = "ensured"
             ELSE IF Len(polls) + 1 = PollTries
                  THEN ensured' = "False" /\ bpc' = "ensured"
                  ELSE ensured' = ensured /\ bpc' = bpc
    /\ UNCHANGED <<cmd, result, kills, entry_open, page, marked, clicks,
                   filled, attached, ncmds, feed_text,
                   exit_code, trace, prev, nonChromeVars>>

\* one round of the wait loop: sleep, check the port
EcPoll ==
    /\ bpc = "ec_poll"
    /\ Len(polls) < PollTries
    /\ \E o \in BOOLEAN :
          /\ port_open' = o
          /\ polls' = Append(polls, o)
          /\ IF o THEN ensured' = "True" /\ bpc' = "ensured"
             ELSE IF Len(polls) + 1 = PollTries
                  THEN ensured' = "False" /\ bpc' = "ensured"
                  ELSE ensured' = ensured /\ bpc' = bpc
    /\ UNCHANGED <<cmd, result, kills, launches, entry_open, page, marked,
                   clicks, filled, attached, ncmds, feed_text,
                   exit_code, trace, prev, nonChromeVars>>

\* what the running operation returns to report a failure: capture_feed
\* returns None, the others False
Failure == IF cmd.name = "capture" THEN "None" ELSE "False"

\* the caller of ensure_chrome_cdp: "if not ensure_chrome_cdp(): return False";
\* chrome_utils' own entry point reports what it returned
CheckEnsured ==
    /\ bpc = "ensured"
    /\ IF cmd.name = "ensure"
       THEN result' = ensured /\ bpc' = "done"
       ELSE IF ensured = "False"
       THEN result' = Failure /\ bpc' = "done"
       ELSE /\ result' = result
            /\ bpc' = IF cmd.name \in MarkCmds \cup UnmarkCmds
                      THEN "extract" ELSE "connect"
    /\ UNCHANGED <<cmd, ensured, port_open, kills, launches, polls, entry_open,
                   page, marked, clicks, filled, attached, ncmds,
                   feed_text, exit_code, trace, prev, nonChromeVars>>

\* ---- the steps every command shares ----

\* like/unlike/bookmark/unbookmark: the URL must hold a tweet id
ExtractId ==
    /\ bpc = "extract"
    /\ IF extract_tweet_id(cmd.url) = <<>>
       THEN result' = "False" /\ bpc' = "done"
       ELSE result' = result /\ bpc' = "connect"
    /\ UNCHANGED <<cmd, ensured, port_open, kills, launches, polls, entry_open,
                   page, marked, clicks, filled, attached, ncmds,
                   feed_text, exit_code, trace, prev, nonChromeVars>>

\* p.chromium.connect_over_cdp(CDP_URL), in its own try
Connect ==
    /\ bpc = "connect"
    /\ \E o \in {"ok", "raise"} :
          IF o = "ok"
          THEN result' = result /\ bpc' = "contexts"
          ELSE result' = Failure /\ bpc' = "done"
    /\ trace' = Append(trace, "connect")
    /\ UNCHANGED <<cmd, ensured, port_open, kills, launches, polls, entry_open,
                   page, marked, clicks, filled, attached, ncmds,
                   feed_text, exit_code, prev, nonChromeVars>>

\* browser.contexts[0], in no try: IndexError when the list is empty
Contexts ==
    /\ bpc = "contexts"
    /\ \E has_context \in BOOLEAN :
          IF has_context
          THEN result' = result /\ bpc' = "new_page"
          ELSE result' = "raise" /\ bpc' = "done"
    /\ UNCHANGED <<cmd, ensured, port_open, kills, launches, polls, entry_open,
                   page, marked, clicks, filled, attached, ncmds,
                   feed_text, exit_code, trace, prev, nonChromeVars>>

\* context.new_page(), in no try
NewPage ==
    /\ bpc = "new_page"
    /\ \E o \in {"ok", "raise"} :
          IF o = "ok"
          THEN /\ page' = "open"
               /\ trace' = Append(trace, "new_page")
               /\ result' = result
               /\ bpc' = CASE cmd.name = "post" /\ cmd.reply_to # <<>>
                               -> "reply_extract"
                           [] cmd.name = "capture" -> "viewport"
                           [] OTHER -> "goto"
          ELSE /\ page' = page
               /\ trace' = trace
               /\ result' = "raise"
               /\ bpc' = "done"
    /\ UNCHANGED <<cmd, ensured, port_open, kills, launches, polls, entry_open,
                   marked, clicks, filled, attached, ncmds,
                   feed_text, exit_code, prev, nonChromeVars>>

\* post_tweet in reply mode: the URL must hold a tweet id (inside the try)
PostReplyExtract ==
    /\ bpc = "reply_extract"
    /\ IF extract_tweet_id(cmd.reply_to) = <<>>
       THEN result' = "False" /\ bpc' = "close"
       ELSE result' = result /\ bpc' = "goto"
    /\ UNCHANGED <<cmd, ensured, port_open, kills, launches, polls, entry_open,
                   page, marked, clicks, filled, attached, ncmds,
                   feed_text, exit_code, trace, prev, nonChromeVars>>

\* like_tweet and bookmark_tweet wait for the like / bookmark control before
\* they look for unlike / removeBookmark: the tweet shows it when it is not
\* marked, and when it is marked another tweet of the page may (others)
WaitFinds(others) ==
    cmd.name \in MarkCmds => (~marked[Kind(cmd.name)] \/ others)

\* page.goto and the waits (and, replying, the click on the reply button) that
\* come before the command looks at the page; a wait for a control that is
\* not on the page times out ("no_control"), and any of the calls may fail
\* for reasons of its own ("fault")
Goto ==
    /\ bpc = "goto"
    /\ \E o \in PageOutcomes, others \in BOOLEAN :
          IF o = "ok" /\ WaitFinds(others)
          THEN /\ result' = result
               /\ trace' = Append(trace, "goto")
               /\ bpc' = CASE cmd.name \in MarkCmds -> "check_marked"
                           [] cmd.name \in UnmarkCmds -> "check_unmarked"
                           [] cmd.name = "post" -> "fill"
                           [] cmd.name = "capture" -> "cap_wait"
                           [] OTHER -> "login"
          ELSE /\ result' = Failure
               /\ trace' = trace \o <<"goto", IF o = "ok" THEN "no_control"
                                               ELSE "fault">>
               /\ bpc' = "close"
    /\ UNCHANGED <<cmd, ensured, port_open, kills, launches, polls, entry_open,
                   page, marked, clicks, filled, attached, ncmds,
                   feed_text, exit_code, prev, nonChromeVars>>

\* finally: page.close(); the function returns
ClosePage ==
    /\ bpc = "close"
    /\ page' = "closed"
    /\ trace' = Append(trace, "close")
    /\ bpc' = "done"
    /\ UNCHANGED <<cmd, result, ensured, port_open, kills, launches, polls,
                   entry_open, marked, clicks, filled, attached, ncmds,
                   feed_text, exit_code, prev, nonChromeVars>>

\* the mutant of ExitStatus: an operation that raised counts as a success
ExitStatusOfRaise ==
    IF result \in {"True", "raise"} \/ (result = "str" /\ feed_text # <<>>)
    THEN 0 ELSE 1

\* sys.exit(0 if success else 1), sys.exit(0) when the text is not empty; an
\* exception that nothing catches, and a missing or blank text, end the
\* interpreter with status 1
ExitStatus ==
    IF result = "True" \/ (result = "str" /\ feed_text # <<>>) THEN 0 ELSE 1

\* the command line ends: the process exits, what it held is gone
CmdReturn ==
    /\ bpc = "done"
    /\ bpc' = "idle"
    /\ exit_code' = ExitStatus
    /\ prev' = [name |-> cmd.name, url |-> cmd.url, result |-> result,
                clicks |-> clicks, text |-> feed_text, marked |-> marked]
    /\ cmd' = NoCmd
    /\ result' = "none"
    /\ ensured' = "none"
    /\ kills' = 0
    /\ launches' = 0
    /\ polls' = <<>>
    /\ entry_open' = FALSE
    /\ page' = "none"
    /\ clicks' = 0
    /\ filled' = FALSE
    /\ attached' = FALSE
    /\ feed_text' = <<>>
    /\ trace' = <<>>
    /\ UNCHANGED <<port_open, marked, ncmds, nonChromeVars>>

\* ---- like_tweet, bookmark_tweet ----

\* what a look at the page finds: the unlike / removeBookmark control
\* (count() > 0) or not
Sight == IF marked[Kind(cmd.name)] THEN "seen" ELSE "unseen"

\* the mutant of CheckMarked: the control is clicked whatever the page shows
CheckMarkedClicks ==
    /\ bpc = "check_marked"
    /\ \E o \in PageOutcomes :
          IF o = "ok"
          THEN /\ trace' = Append(trace, Sight)
               /\ result' = result
               /\ bpc' = "click_mark"
          ELSE /\ trace' = Append(trace, "fault")
               /\ result' = "False"
               /\ bpc' = "close"
    /\ UNCHANGED <<cmd, ensured, port_open, kills, launches, polls, entry_open,
                   page, marked, clicks, filled, attached, ncmds, feed_text,
                   exit_code, prev, nonChromeVars>>

\* "already liked / bookmarked": the unlike / removeBookmark control is there
CheckMarked ==
    /\ bpc = "check_marked"
    /\ \E o \in PageOutcomes :
          IF o = "ok"
          THEN /\ trace' = Append(trace, Sight)
               /\ IF marked[Kind(cmd.name)]
                  THEN result' = "True" /\ bpc' = "close"
                  ELSE result' = result /\ bpc' = "click_mark"
          ELSE /\ trace' = Append(trace, "fault")
               /\ result' = "False"
               /\ bpc' = "close"
    /\ UNCHANGED <<cmd, ensured, port_open, kills, launches, polls, entry_open,
                   page, marked, clicks, filled, attached, ncmds, feed_text,
                   exit_code, prev, nonChromeVars>>

\* the click on like / bookmark; the site takes it or not
ClickMark ==
    /\ bpc = "click_mark"
    /\ \E o \in PageOutcomes, took \in BOOLEAN :
          IF o = "ok"
          THEN /\ clicks' = clicks + 1
               /\ trace' = Append(trace, "click")
               /\ marked' = [marked EXCEPT ![Kind(cmd.name)] = took]
               /\ result' = result
               /\ bpc' = "verify"
          ELSE /\ clicks' = clicks
               /\ trace' = Append(trace, "fault")
               /\ marked' = marked
               /\ result' = "False"
               /\ bpc' = "close"
    /\ UNCHANGED <<cmd, ensured, port_open, kills, launches, polls, entry_open,
                   page, filled, attached, ncmds, feed_text,
                   exit_code, prev, nonChromeVars>>

\* the mutant of VerifyMark: the click is trusted, as unlike_tweet trusts its
\* own
VerifyMarkTrusts ==
    /\ bpc = "verify"
    /\ \E o \in PageOutcomes :
          /\ trace' = Append(trace, IF o = "ok" THEN Sight ELSE "fault")
          /\ result' = IF o = "ok" THEN "True" ELSE "False"
          /\ bpc' = "close"
    /\ UNCHANGED <<cmd, ensured, port_open, kills, launches, polls, entry_open,
                   page, marked, clicks, filled, attached, ncmds, feed_text,
                   exit_code, prev, nonChromeVars>>

\* the check after the click
VerifyMark ==
    /\ bpc = "verify"
    /\ \E o \in PageOutcomes :
          /\ trace' = Append(trace, IF o = "ok" THEN Sight ELSE "fault")
          /\ result' = IF o = "ok" /\ marked[Kind(cmd.name)]
                       THEN "True" ELSE "False"
          /\ bpc' = "close"
    /\ UNCHANGED <<cmd, ensured, port_open, kills, launches, polls, entry_open,
                   page, marked, clicks, filled, attached, ncmds, feed_text,
                   exit_code, prev, nonChromeVars>>

\* ---- unlike_tweet, unbookmark_tweet ----

\* "not liked / bookmarked": the unlike / removeBookmark control is not there
CheckUnmarked ==
    /\ bpc = "check_unmarked"
    /\ \E o \in PageOutcomes :
          IF o = "ok"
          THEN /\ trace' = Append(trace, Sight)
               /\ IF ~marked[Kind(cmd.name)]
                  THEN result' = "True" /\ bpc' = "close"
                  ELSE result' = result /\ bpc' = "click_unmark"
          ELSE /\ trace' = Append(trace, "fault")
               /\ result' = "False"
               /\ bpc' = "close"
    /\ UNCHANGED <<cmd, ensured, port_open, kills, launches, polls, entry_open,
                   page, marked, clicks, filled, attached, ncmds, feed_text,
                   exit_code, prev, nonChromeVars>>

\* the click on unlike / removeBookmark; success is reported without a check
ClickUnmark ==
    /\ bpc = "click_unmark"
    /\ \E o \in PageOutcomes, took \in BOOLEAN :
          IF o = "ok"
          THEN /\ clicks' = clicks + 1
               /\ trace' = Append(trace, "click")
               /\ marked' = [marked EXCEPT ![Kind(cmd.name)] = ~took]
               /\ result' = "True"
          ELSE /\ clicks' = clicks
               /\ trace' = Append(trace, "fault")
               /\ marked' = marked
               /\ result' = "False"
    /\ bpc' = "close"
    /\ UNCHANGED <<cmd, ensured, port_open, kills, launches, polls, entry_open,
                   page, filled, attached, ncmds, feed_text,
                   exit_code, prev, nonChromeVars>>

\* ---- capture_feed ----

\* what ocr.py may print
Stdouts ==
    { <<>>, <<" ", "\n">>, <<"h", "i">>, <<" ", "h", "i", "\n">> }

\* page.set_viewport_size, in no try and before the try whose finally closes
\* the page
CapViewport ==
    /\ bpc = "viewport"
    /\ \E o \in {"ok", "raise"} :
          IF o = "ok"
          THEN result' = result /\ bpc' = "goto"
          ELSE result' = "raise" /\ bpc' = "done"
    /\ UNCHANGED <<cmd, ensured, port_open, kills, launches, polls, entry_open,
                   page, marked, clicks, filled, attached, ncmds,
                   feed_text, exit_code, trace, prev, nonChromeVars>>

\* wait for a tweet; on a timeout, wait for the primary column instead
CapWait ==
    /\ bpc = "cap_wait"
    /\ \E tweet \in PageOutcomes, column \in PageOutcomes :
          IF tweet = "ok" \/ (tweet = "timeout" /\ column = "ok")
          THEN result' = result /\ bpc' = "cap_shot"
          ELSE result' = "None" /\ bpc' = "close"
    /\ UNCHANGED <<cmd, ensured, port_open, kills, launches, polls, entry_open,
                   page, marked, clicks, filled, attached, ncmds,
                   feed_text, exit_code, trace, prev, nonChromeVars>>

\* the scrolls, the temporary file, the screenshot and its copy
CapShot ==
    /\ bpc = "cap_shot"
    /\ \E o \in PageOutcomes :
          IF o = "ok"
          THEN result' = result /\ bpc' = "cap_ocr"
          ELSE result' = "None" /\ bpc' = "close"
    /\ UNCHANGED <<cmd, ensured, port_open, kills, launches, polls, entry_open,
                   page, marked, clicks, filled, attached, ncmds,
                   feed_text, exit_code, trace, prev, nonChromeVars>>

\* run_paddle_ocr: stdout.strip() when ocr.py returns 0, None when it does not
\* or cannot be run; then "if not result: return None", else the result
CapOcr ==
    /\ bpc = "cap_ocr"
    /\ \E o \in {"zero", "nonzero", "raise"}, stdout \in Stdouts :
          IF o = "zero" /\ Strip(stdout) # <<>>
          THEN result' = "str" /\ feed_text' = Strip(stdout)
          ELSE result' = "None" /\ feed_text' = feed_text
    /\ bpc' = "close"
    /\ UNCHANGED <<cmd, ensured, port_open, kills, launches, polls, entry_open,
                   page, marked, clicks, filled, attached, ncmds,
                   exit_code, trace, prev, nonChromeVars>>

\* ---- post_tweet ----

\* the editor: click, fill(text)
PostFill ==
    /\ bpc = "fill"
    /\ \E o \in PageOutcomes :
          IF o = "ok"
          THEN /\ filled' = TRUE
               /\ trace' = Append(trace, "fill")
               /\ result' = result
               /\ bpc' = IF cmd.image # "none" THEN "image" ELSE "send"
          ELSE /\ filled' = filled
               /\ trace' = trace
               /\ result' = "False"
               /\ bpc' = "close"
    /\ UNCHANGED <<cmd, ensured, port_open, kills, launches, polls, entry_open,
                   page, marked, clicks, attached, ncmds, feed_text,
                   exit_code, prev, nonChromeVars>>

\* the image: it must exist, then set_input_files
PostImage ==
    /\ bpc = "image"
    /\ \E o \in PageOutcomes :
          IF cmd.image = "exists" /\ o = "ok"
          THEN /\ attached' = TRUE
               /\ trace' = Append(trace, "attach")
               /\ result' = result
               /\ bpc' = "send"
          ELSE /\ attached' = attached
               /\ trace' = trace
               /\ result' = "False"
               /\ bpc' = "close"
    /\ UNCHANGED <<cmd, ensured, port_open, kills, launches, polls, entry_open,
                   page, marked, clicks, filled, ncmds, feed_text,
                   exit_code, prev, nonChromeVars>>

\* the click on the send button
PostSend ==
    /\ bpc = "send"
    /\ \E o \in PageOutcomes :
          IF o = "ok"
          THEN /\ clicks' = clicks + 1
               /\ trace' = Append(trace, "send")
               /\ result' = "True"
          ELSE /\ clicks' = clicks
               /\ trace' = trace
               /\ result' = "False"
    /\ bpc' = "close"
    /\ UNCHANGED <<cmd, ensured, port_open, kills, launches, polls, entry_open,
                   page, marked, filled, attached, ncmds, feed_text,
                   exit_code, prev, nonChromeVars>>

\* ---- post_v2ex ----

\* the login form is on the page: not logged in
V2Login ==
    /\ bpc = "login"
    /\ \E o \in PageOutcomes, login_form \in BOOLEAN :
          IF o = "ok" /\ ~login_form
          THEN result' = result /\ bpc' = "markdown"
          ELSE result' = "False" /\ bpc' = "close"
    /\ UNCHANGED <<cmd, ensured, port_open, kills, launches, polls, entry_open,
                   page, marked, clicks, filled, attached, ncmds,
                   feed_text, exit_code, trace, prev, nonChromeVars>>

\* the Markdown option, in a try of its own: a failure is printed and ignored
V2Markdown ==
    /\ bpc = "markdown"
    /\ bpc' = "v2fill"
    /\ UNCHANGED <<cmd, result, ensured, port_open, kills, launches, polls,
                   entry_open, page, marked, clicks, filled, attached, ncmds,
                   feed_text, exit_code, trace, prev, nonChromeVars>>

\* title and content: wait_for, click, fill
V2Fill ==
    /\ bpc = "v2fill"
    /\ \E o \in PageOutcomes :
          IF o = "ok"
          THEN /\ filled' = TRUE
               /\ trace' = Append(trace, "fill")
               /\ result' = result
               /\ bpc' = "submit"
          ELSE /\ filled' = filled
               /\ trace' = trace
               /\ result' = "False"
               /\ bpc' = "close"
    /\ UNCHANGED <<cmd, ensured, port_open, kills, launches, polls, entry_open,
                   page, marked, clicks, attached, ncmds, feed_text,
                   exit_code, prev, nonChromeVars>>

\* the click on the submit button, then "/t/" in page.url
V2Submit ==
    /\ bpc = "submit"
    /\ \E o \in PageOutcomes, topic_url \in BOOLEAN :
          IF o = "ok"
          THEN /\ clicks' = clicks + 1
               /\ trace' = Append(trace, "send")
               /\ result' = IF topic_url THEN "True" ELSE "False"
          ELSE /\ clicks' = clicks
               /\ trace' = trace
               /\ result' = "False"
    /\ bpc' = "close"
    /\ UNCHANGED <<cmd, ensured, port_open, kills, launches, polls, entry_open,
                   page, marked, filled, attached, ncmds, feed_text,
                   exit_code, prev, nonChromeVars>>

\* ---- the command lines, one after the other ----

ChromeInit ==
    /\ cmd = NoCmd
    /\ bpc = "idle"
    /\ result = "none"
    /\ ensured = "none"
    /\ port_open \in BOOLEAN
    /\ kills = 0
    /\ launches = 0
    /\ polls = <<>>
    /\ entry_open = FALSE
    /\ page = "none"
    /\ marked \in [{"like", "bookmark"} -> BOOLEAN]
    /\ clicks = 0
    /\ filled = FALSE
    /\ attached = FALSE
    /\ ncmds = 0
    /\ feed_text = <<>>
    /\ exit_code = None
    /\ trace = <<>>
    /\ prev = NoPrev
    /\ ocr_text = <<>>
    /\ ppc = "idle"
    /\ ParseIdle
    /\ DbIdle

\* a step of the running command
ChromeStep ==
    \/ EcEntry
    \/ EcKill
    \/ EcLaunch
    \/ EcPoll
    \/ CheckEnsured
    \/ ExtractId
    \/ Connect
    \/ Contexts
    \/ NewPage
    \/ PostReplyExtract
    \/ Goto
    \/ CheckMarked
    \/ ClickMark
    \/ VerifyMark
    \/ CheckUnmarked
    \/ ClickUnmark
    \/ PostFill
    \/ PostImage
    \/ PostSend
    \/ V2Login
    \/ V2Markdown
    \/ V2Fill
    \/ V2Submit
    \/ CapViewport
    \/ CapWait
    \/ CapShot
    \/ CapOcr
    \/ ClosePage
    \/ CmdReturn

ChromeNext ==
    \/ \E c \in Cmds : StartCmd(c)
    \/ ChromeStep

ChromeSpec == ChromeInit /\ [][ChromeNext]_vars

\* a running command is not held up: every call it makes returns or raises
\* (the port check has a one-second timeout, the sleeps are finite, the page
\* actions have timeouts)
FairChromeSpec == ChromeSpec /\ WF_vars(ChromeStep)

(***************************************************************************)
(* The tweets table.  A column's value is a number that stands for its     *)
(* content: the tweet at position pos of the batch of call number c has    *)
(* 1000*c + 100*pos + (the column's number) in every column but tweet_id   *)
(* and tweet_url, so that no two values written are equal.  A NULL number  *)
(* or timestamp is None.                                                   *)
(*                                                                         *)
(* The table belongs to the database: ON CONFLICT (tweet_id) is an error   *)
(* unless the table has a unique index on tweet_id, and the statement is   *)
(* an error when two of its rows have the same tweet_id.  A failure of the *)
(* database either leaves the connection usable ("error") or breaks it     *)
(* ("lost"); on a broken connection rollback() raises.                     *)
(***************************************************************************)
nonDbVars == <<parseVars, chromeVars>>

\* the URL tweet_from_xhr_json builds from the id; an OCR tweet has neither
UrlOf(tid) ==
    CASE tid = "t1" -> "u1"
      [] tid = "t2" -> "u2"
      [] OTHER -> NULL

\* the Tweet saved at position pos of the batch of call number c
MkTweet(tid, c, pos) ==
    LET v == 1000 * c + 100 * pos
    IN  [author |-> v + 1, author_name |-> v + 2, content |-> v + 3,
         tweet_url |-> UrlOf(tid), voice_file |-> v + 4, voice_text |-> v + 5,
         likes |-> v + 6, retweets |-> v + 7, views |-> v + 8,
         created_at |-> v + 9, tweet_id |-> tid, reply_count |-> v + 10,
         quote_count |-> v + 11, user_followers |-> v + 12,
         user_friends |-> v + 13, user_description |-> v + 14,
         data_source |-> v + 15, raw_json |-> v + 16]

\* the batches of call number c
\* the tweet_ids of the batches saved: none, one, a stored and a new one, the
\* same one twice, with and without tweets that have no tweet_id
BatchIds ==
    { <<>>, <<"t1">>, <<"t2">>, <<NULL>>, <<"t1", "t2">>, <<"t1", "t1">>,
      <<NULL, "t1">>, <<NULL, NULL>>, <<"t2", NULL, "t1">> }

Batches(c) ==
    { [pos \in 1..Len(ids) |-> MkTweet(ids[pos], c, pos)] : ids \in BatchIds }

\* the row INSERT makes of a tuple of data: the columns not named take their
\* defaults
NewRow(d, id) ==
    [id |-> id,
     author |-> d.author, author_name |-> d.author_name, content |-> d.content,
     tweet_url |-> d.tweet_url, voice_file |-> d.voice_file,
     voice_text |-> d.voice_text, likes |-> d.likes, retweets |-> d.retweets,
     views |-> d.views, created_at |-> d.created_at, tweet_id |-> d.tweet_id,
     reply_count |-> d.reply_count, quote_count |-> d.quote_count,
     user_followers |-> d.user_followers, user_friends |-> d.user_friends,
     user_description |-> d.user_description, data_source |-> d.data_source,
     raw_json |-> d.raw_json,
     is_liked |-> FALSE, liked_at |-> None,
     is_bookmarked |-> FALSE, bookmarked_at |-> None]

\* the mutant of ConflictUpdate: the content is replaced too
ConflictUpdateContent(row, d) ==
    [row EXCEPT !.likes = d.likes, !.retweets = d.retweets,
                !.reply_count = d.reply_count, !.quote_count = d.quote_count,
                !.views = d.views, !.content = d.content]

\* DO UPDATE SET likes, retweets, reply_count, quote_count, views = EXCLUDED's
ConflictUpdate(row, d) ==
    [row EXCEPT !.likes = d.likes, !.retweets = d.retweets,
                !.reply_count = d.reply_count, !.quote_count = d.quote_count,
                !.views = d.views]

\* the mutant of InsertOnConflict: the statement has no ON CONFLICT clause, a
\* tweet_id that is stored violates the unique index
RECURSIVE InsertNoConflictClause(_, _, _, _)
InsertNoConflictClause(rows, data, nid, touched) ==
    IF data = <<>> THEN [ok |-> TRUE, rows |-> rows, nid |-> nid]
    ELSE IF \E k \in 1..Len(rows) : rows[k].tweet_id = Head(data).tweet_id
    THEN [ok |-> FALSE, rows |-> rows, nid |-> nid + 1]
    ELSE InsertNoConflictClause(Append(rows, NewRow(Head(data), nid)),
                                Tail(data), nid + 1, touched \cup {nid})

\* INSERT ... VALUES data ON CONFLICT (tweet_id) DO UPDATE ..., row by row;
\* touched: the ids of the rows the statement has written
RECURSIVE InsertOnConflict(_, _, _, _)
InsertOnConflict(rows, data, nid, touched) ==
    IF data = <<>> THEN [ok |-> TRUE, rows |-> rows, nid |-> nid]
    ELSE LET d   == Head(data)
             hit == {k \in 1..Len(rows) : rows[k].tweet_id = d.tweet_id}
         IN  IF hit = {}
             THEN InsertOnConflict(Append(rows, NewRow(d, nid)), Tail(data),
                                   nid + 1, touched \cup {nid})
             ELSE LET k == CHOOSE h \in hit : TRUE
                  IN  IF rows[k].id \in touched
                      THEN [ok |-> FALSE, rows |-> rows, nid |-> nid + 1]
                      ELSE InsertOnConflict(
                               [rows EXCEPT ![k] = ConflictUpdate(rows[k], d)],
                               Tail(data), nid + 1,
                               touched \cup {rows[k].id})

\* INSERT ... VALUES data
RECURSIVE InsertPlain(_, _, _)
InsertPlain(rows, data, nid) ==
    IF data = <<>> THEN [ok |-> TRUE, rows |-> rows, nid |-> nid]
    ELSE InsertPlain(Append(rows, NewRow(Head(data), nid)), Tail(data),
                     nid + 1)

HasId(d) == d.tweet_id # NULL
NoId(d) == d.tweet_id = NULL

\* a call on the table is running
Falsy(url, id) == url = NULL /\ id = 0

\* what the call returns when it reports a failure: 0 or False
FailureResult == IF dcall.name = "save" THEN "int" ELSE "False"

\* save_tweets(batch) is called; an empty batch returns 0 at once
CallSave(batch) ==
    /\ dpc = "idle"
    /\ ndb < MaxDbCalls
    /\ ndb' = ndb + 1
    /\ now' = now + 1
    /\ dcall' = [NoCall EXCEPT !.name = "save", !.batch = batch]
    /\ before' = table
    /\ connects' = 0
    /\ faulted' = FALSE
    /\ conn' = "none"
    /\ saved' = 0
    /\ rowcount' = 0
    /\ IF batch = <<>>
       THEN dresult' = "int" /\ dpc' = "done"
       ELSE dresult' = "none" /\ dpc' = "connect"
    /\ UNCHANGED <<table, txn, next_id, unique_index, nonDbVars>>

\* mark_liked / mark_bookmarked is called; with neither key it returns False
\* at once
CallMark(name, url, id, flag) ==
    /\ dpc = "idle"
    /\ ndb < MaxDbCalls
    /\ ndb' = ndb + 1
    /\ now' = now + 1
    /\ dcall' = [NoCall EXCEPT !.name = name, !.tweet_url = url,
                               !.tweet_id = id, !.flag = flag]
    /\ before' = table
    /\ connects' = 0
    /\ faulted' = FALSE
    /\ conn' = "none"
    /\ saved' = 0
    /\ rowcount' = 0
    /\ IF Falsy(url, id)
       THEN dresult' = "False" /\ dpc' = "done"
       ELSE dresult' = "none" /\ dpc' = "connect"
    /\ UNCHANGED <<table, txn, next_id, unique_index, nonDbVars>>

\* get_db_connection(), conn.cursor()
DbConnect ==
    /\ dpc = "connect"
    /\ \E o \in {"ok", "error"} :
          IF o = "ok"
          THEN /\ conn' = "open"
               /\ connects' = connects + 1
               /\ txn' = table
               /\ faulted' = faulted
               /\ dpc' = IF dcall.name = "save" THEN "with_id" ELSE "update"
          ELSE /\ conn' = conn
               /\ connects' = connects
               /\ txn' = txn
               /\ faulted' = TRUE
               /\ dpc' = "except"
    /\ UNCHANGED <<table, dcall, dresult, saved, rowcount, next_id, now,
                   before, unique_index, ndb, nonDbVars>>

\* the tuples with a tweet_id, with ON CONFLICT
SaveWithId ==
    /\ dpc = "with_id"
    /\ LET data == SelectSeq(dcall.batch, HasId)
           r    == InsertOnConflict(txn, data, next_id, {})
       IN  IF data = <<>>
           THEN /\ dpc' = "without_id"
                /\ UNCHANGED <<txn, conn, next_id, faulted>>
           ELSE \E o \in {"ok", "error", "lost"} :
                  IF o = "ok" /\ unique_index /\ r.ok
                  THEN /\ txn' = r.rows
                       /\ next_id' = r.nid
                       /\ dpc' = "without_id"
                       /\ UNCHANGED <<conn, faulted>>
                  ELSE /\ txn' = txn
                       /\ next_id' = IF o = "ok" /\ unique_index
                                     THEN r.nid ELSE next_id
                       /\ conn' = IF o = "lost" THEN "broken" ELSE conn
                       /\ faulted' = (faulted \/ o # "ok")
                       /\ dpc' = "except"
    /\ UNCHANGED <<table, dcall, dresult, saved, rowcount, now, before,
                   connects, unique_index, ndb, nonDbVars>>

\* the tuples without a tweet_id, plainly inserted
SaveWithoutId ==
    /\ dpc = "without_id"
    /\ LET data == SelectSeq(dcall.batch, NoId)
           r    == InsertPlain(txn, data, next_id)
       IN  IF data = <<>>
           THEN /\ dpc' = "commit"
                /\ UNCHANGED <<txn, conn, next_id, faulted>>
           ELSE \E o \in {"ok", "error", "lost"} :
                  IF o = "ok"
                  THEN /\ txn' = r.rows
                       /\ next_id' = r.nid
                       /\ dpc' = "commit"
                       /\ UNCHANGED <<conn, faulted>>
                  ELSE /\ txn' = txn
                       /\ next_id' = next_id
                       /\ conn' = IF o = "lost" THEN "broken" ELSE conn
                       /\ faulted' = TRUE
                       /\ dpc' = "except"
    /\ UNCHANGED <<table, dcall, dresult, saved, rowcount, now, before,
                   connects, unique_index, ndb, nonDbVars>>

\* the stored row as the UPDATE of mark_liked / mark_bookmarked leaves it
Marked(row) ==
    IF dcall.name = "mark_liked"
    THEN [row EXCEPT !.is_liked = dcall.flag,
                     !.liked_at = IF dcall.flag THEN now ELSE None]
    ELSE [row EXCEPT !.is_bookmarked = dcall.flag,
                     !.bookmarked_at = IF dcall.flag THEN now ELSE None]

\* WHERE tweet_url = %s when the URL is given, else WHERE id = %s
Matches(row) ==
    IF dcall.tweet_url # NULL
    THEN row.tweet_url = dcall.tweet_url
    ELSE row.id = dcall.tweet_id

\* cur.execute("UPDATE tweets SET ... WHERE ...")
MarkUpdate ==
    /\ dpc = "update"
    /\ \E o \in {"ok", "error", "lost"} :
          IF o = "ok"
          THEN /\ txn' = [k \in 1..Len(txn) |->
                            IF Matches(txn[k]) THEN Marked(txn[k]) ELSE txn[k]]
               /\ rowcount' = Cardinality({k \in 1..Len(txn) : Matches(txn[k])})
               /\ dpc' = "commit"
               /\ UNCHANGED <<conn, faulted>>
          ELSE /\ txn' = txn
               /\ rowcount' = rowcount
               /\ conn' = IF o = "lost" THEN "broken" ELSE conn
               /\ faulted' = TRUE
               /\ dpc' = "except"
    /\ UNCHANGED <<table, dcall, dresult, saved, next_id, now, before,
                   connects, unique_index, ndb, nonDbVars>>

\* conn.commit(), then the return of the try block
DbCommit ==
    /\ dpc = "commit"
    /\ \E o \in {"ok", "error", "lost"} :
          IF o = "ok"
          THEN /\ table' = txn
               /\ IF dcall.name = "save"
                  THEN dresult' = "int" /\ saved' = Len(dcall.batch)
                  ELSE /\ dresult' = IF rowcount > 0 THEN "True" ELSE "False"
                       /\ saved' = saved
               /\ dpc' = "finally"
               /\ UNCHANGED <<conn, faulted>>
          ELSE /\ table' = table
               /\ dresult' = dresult
               /\ saved' = saved
               /\ conn' = IF o = "lost" THEN "broken" ELSE conn
               /\ faulted' = TRUE
               /\ dpc' = "except"
    /\ UNCHANGED <<txn, dcall, rowcount, next_id, now, before, connects,
                   unique_index, ndb, nonDbVars>>

\* except psycopg2.Error: rollback if there is a connection, return 0 / False;
\* rollback() on a broken connection raises, out of the handler
DbExcept ==
    /\ dpc = "except"
    /\ IF conn = "broken"
       THEN dresult' = "raise" /\ txn' = txn
       ELSE dresult' = FailureResult /\ txn' = table
    /\ saved' = 0
    /\ dpc' = "finally"
    /\ UNCHANGED <<table, conn, dcall, rowcount, next_id, now, before,
                   connects, faulted, unique_index, ndb, nonDbVars>>

\* finally: close the connection if there is one
DbFinally ==
    /\ dpc = "finally"
    /\ conn' = IF conn = "none" THEN "none" ELSE "closed"
    /\ dpc' = "done"
    /\ UNCHANGED <<table, txn, dcall, dresult, saved, rowcount, next_id, now,
                   before, connects, faulted, unique_index, ndb, nonDbVars>>

\* the caller has the result; what belonged to the call is gone
DbReturn ==
    /\ dpc = "done"
    /\ dpc' = "idle"
    /\ dcall' = NoCall
    /\ dresult' = "none"
    /\ conn' = "none"
    /\ txn' = table
    /\ before' = table
    /\ saved' = 0
    /\ rowcount' = 0
    /\ connects' = 0
    /\ faulted' = FALSE
    /\ UNCHANGED <<table, next_id, now, unique_index, ndb, nonDbVars>>

MarkUrls == {NULL, "u1"}
MarkIds == {0, 1, 2}

\* a row that an earlier save_tweets stored and mark_liked and
\* mark_bookmarked marked, at time 0
StoredRow ==
    [NewRow(MkTweet("t1", 0, 1), 1) EXCEPT !.is_liked = TRUE, !.liked_at = 0,
                                           !.is_bookmarked = TRUE,
                                           !.bookmarked_at = 0]

\* the table is empty, or holds the one row
DbInit ==
    /\ table \in {<<>>, <<StoredRow>>}
    /\ txn = table
    /\ conn = "none"
    /\ dcall = NoCall
    /\ dpc = "idle"
    /\ dresult = "none"
    /\ saved = 0
    /\ rowcount = 0
    /\ next_id = Len(table) + 1
    /\ now = 0
    /\ before = table
    /\ connects = 0
    /\ faulted = FALSE
    /\ unique_index \in BOOLEAN
    /\ ndb = 0
    /\ ocr_text = <<>>
    /\ ppc = "idle"
    /\ ParseIdle
    /\ ChromeIdle

DbNext ==
    \/ \E batch \in Batches(ndb + 1) : CallSave(batch)
    \/ \E name \in {"mark_liked", "mark_bookmarked"}, url \in MarkUrls,
          id \in MarkIds, flag \in BOOLEAN : CallMark(name, url, id, flag)
    \/ DbConnect
    \/ SaveWithId
    \/ SaveWithoutId
    \/ MarkUpdate
    \/ DbCommit
    \/ DbExcept
    \/ DbFinally
    \/ DbReturn

DbSpec == DbInit /\ [][DbNext]_vars

(***************************************************************************)
(* C1.  As written: within one record the numeric lines go to the counters *)
(* in first-seen order, the first to views, the second to likes, the third *)
(* to retweets, whatever their values.                                     *)
(***************************************************************************)
C1_FirstSeenOrder ==
    current_tweet # <<>> =>
        LET t == current_tweet[1]
            n == Len(stat_hist)
        IN  /\ n >= 1 => t.views = stat_hist[1]
            /\ n >= 2 => t.likes = stat_hist[2]
            /\ n >= 3 => t.retweets = stat_hist[3]

(***************************************************************************)
(* C1, amended.  The numeric lines that have a value go to views, likes,   *)
(* retweets in first-seen order when the first value exceeds 100; a first  *)
(* value of at most 100 goes to likes, and views is only ever set by a     *)
(* value above 100.                                                        *)
(***************************************************************************)
C1_OrderWhenFirstAbove100 ==
    current_tweet # <<>> /\ stat_hist # <<>> =>
        LET t == current_tweet[1]
            n == Len(stat_hist)
        IN  IF stat_hist[1] > 100
            THEN /\ t.views = stat_hist[1]
                 /\ n >= 2 => t.likes = stat_hist[2]
                 /\ n >= 3 => t.retweets = stat_hist[3]
            ELSE /\ t.likes = stat_hist[1]
                 /\ t.views = None \/ t.views > 100

\* a returned record whose three counters came from three numeric lines, the
\* first above 100
C1_Witness ==
    /\ ppc = "done"
    /\ Len(stat_hist) = 3
    /\ stat_hist[1] > 100
    /\ tweets # <<>>
    /\ tweets[Len(tweets)].views = stat_hist[1]
    /\ tweets[Len(tweets)].likes = stat_hist[2]
    /\ tweets[Len(tweets)].retweets = stat_hist[3]
    /\ stat_hist[2] # stat_hist[3]

(***************************************************************************)
(* C2.  Every handle line (a line with an @handle that starts with "@",    *)
(* contains the middle dot or follows a blank line) starts a new record    *)
(* whose author is "@" + the handle, and every content line goes to the    *)
(* record of the last handle line before it and to no other: the returned  *)
(* records are, in order, the handle lines that have content lines before  *)
(* the next handle line, each with exactly those lines as its content.     *)
(***************************************************************************)
C2_IsHandle(ls, k) ==
    LET line == Strip(ls[k])
    IN  /\ HandleSearch(line) # 0
        /\ \/ line[1] = "@"
           \/ \E j \in 1..Len(line) : line[j] = "u00B7"
           \/ k > 1 /\ Strip(ls[k - 1]) = <<>>

C2_IsContent(ls, k) ==
    LET line == Strip(ls[k])
    IN  /\ line # <<>>
        /\ line \notin FeedNoise \cup UiNoise
        /\ ~C2_IsHandle(ls, k)
        /\ ~StatsMatch(line)
        /\ ~TimeMatch(line)

\* the content lines from line k up to the next handle line
RECURSIVE C2_Segment(_, _)
C2_Segment(ls, k) ==
    IF k > Len(ls) \/ C2_IsHandle(ls, k) THEN <<>>
    ELSE IF C2_IsContent(ls, k)
         THEN <<Strip(ls[k])>> \o C2_Segment(ls, k + 1)
         ELSE C2_Segment(ls, k + 1)

\* the <<author, content lines>> of the records expected from line k on
RECURSIVE C2_Expected(_, _)
C2_Expected(ls, k) ==
    IF k > Len(ls) THEN <<>>
    ELSE IF C2_IsHandle(ls, k) /\ C2_Segment(ls, k + 1) # <<>>
         THEN <<[author |-> <<"@">> \o HandleGroup(Strip(ls[k])),
                 content |-> C2_Segment(ls, k + 1)]>>
              \o C2_Expected(ls, k + 1)
         ELSE C2_Expected(ls, k + 1)

C2_RecordsFollowHandleLines ==
    ppc = "done" =>
        [k \in 1..Len(tweets) |->
            [author |-> tweets[k].author,
             content |-> SplitLines(tweets[k].content)]]
        = C2_Expected(lines, 1)

\* two records returned, of two authors, the second started after a blank line
\* by a handle inside the line
C2_Witness ==
    /\ ppc = "done"
    /\ Len(tweets) = 2
    /\ tweets[1].author # tweets[2].author
    /\ Len(SplitLines(tweets[1].content)) = 2
    /\ \E k \in 2..Len(lines) :
          /\ C2_IsHandle(lines, k)
          /\ Strip(lines[k])[1] # "@"
          /\ "u00B7" \notin Range(Strip(lines[k]))

(***************************************************************************)
(* C3.  No content line of a returned record, stripped, is a noise token.  *)
(***************************************************************************)
C3_NoiseTokens ==
    { <<"R", "e", "p", "l", "y">>,
      <<"R", "e", "p", "o", "s", "t">>,
      <<"L", "i", "k", "e">>,
      <<"S", "h", "a", "r", "e">>,
      <<"B", "o", "o", "k", "m", "a", "r", "k">>,
      <<"V", "i", "e", "w", "s">>,
      <<"u56DE", "u590D">>, <<"u8F6C", "u63A8">>, <<"u559C", "u6B22">>,
      <<"u5206", "u4EAB">>, <<"u4E66", "u7B7E">>, <<"u6D4F", "u89C8">>,
      <<"F", "o", "l", "l", "o", "w", "i", "n", "g">>,
      <<"F", "o", "r", " ", "y", "o", "u">>,
      <<"S", "h", "o", "w", " ", "m", "o", "r", "e">>,
      <<".", ".", ".">> }

C3_NoNoiseInContent ==
    \A k \in 1..Len(tweets) :
        \A c \in Range(SplitLines(tweets[k].content)) :
            Strip(c) \notin C3_NoiseTokens

\* a record was returned whose lines, in the text, had noise tokens of both
\* lists among them
C3_Witness ==
    /\ ppc = "done"
    /\ Len(tweets) = 1
    /\ \E h, a, b \in 1..Len(lines) :
          /\ h < a /\ h < b
          /\ IsHandleLine(lines, h)
          /\ Strip(lines[a]) = <<"L", "i", "k", "e">>
          /\ Strip(lines[b]) = <<".", ".", ".">>

(***************************************************************************)
(* C4.  Two calls on the same text return the same list of records,        *)
(* whatever calls were made before or between them.                        *)
(***************************************************************************)
C4_SameInputSameRecords ==
    \A a, b \in 1..Len(history) :
        history[a].input = history[b].input =>
            history[a].result = history[b].result

\* the first and the third call were on the same text, which has records, the
\* second on another text that has records too
C4_Witness ==
    /\ Len(history) = 3
    /\ history[1].input = history[3].input
    /\ history[1].input # history[2].input
    /\ history[1].result # <<>>
    /\ history[2].result # <<>>

(***************************************************************************)
(* C5.  like_tweet, unlike_tweet, bookmark_tweet, unbookmark_tweet,        *)
(* post_tweet and post_v2ex report every failure by returning False: no    *)
(* call ends with an exception reaching the caller.                        *)
(***************************************************************************)
C5_EveryFailureReturnsFalse ==
    /\ bpc = "done"
    /\ cmd.name \in {"like", "unlike", "bookmark", "unbookmark", "post",
                     "v2post"}
    => result \in {"True", "False"}

(***************************************************************************)
(* C6.  ensure_chrome_cdp always terminates; it kills at most once,        *)
(* launches at most once and polls at most 3 times, and only in that       *)
(* order, after a port check at entry that found the port closed; it       *)
(* returns True at the first check that finds the port open and False      *)
(* when the 3 polls all found it closed.                                   *)
(***************************************************************************)
C6_Counts ==
    /\ kills <= 1
    /\ launches <= 1
    /\ Len(polls) <= 3
    /\ launches = 1 => kills = 1
    /\ polls # <<>> => launches = 1
    /\ kills = 1 => ~entry_open
    /\ \A k \in 1..(Len(polls) - 1) : ~polls[k]
    /\ ensured = "True" =>
          \/ entry_open /\ kills = 0 /\ launches = 0 /\ polls = <<>>
          \/ polls # <<>> /\ polls[Len(polls)]
    /\ ensured = "False" =>
          /\ ~entry_open
          /\ kills = 1
          /\ launches = 1
          /\ Len(polls) = 3
          /\ ~polls[3]
    /\ ensured = "none" /\ polls # <<>> => ~polls[Len(polls)]

C6_EnsureTerminates ==
    /\ []C6_Counts
    /\ (bpc = "ec_entry") ~> (bpc \in {"ensured", "done"})

\* the port was closed at entry and at two polls, open at the third:
\* ensure_chrome_cdp has returned True after one kill and one launch
C6_Witness ==
    /\ bpc = "ensured"
    /\ ensured = "True"
    /\ ~entry_open
    /\ kills = 1
    /\ launches = 1
    /\ polls = <<FALSE, FALSE, TRUE>>


(***************************************************************************)
(* The claims about the tweets table are about the state in which a call   *)
(* returns: dpc = "done", with before the table as the call found it.      *)
(***************************************************************************)
SaveDone == dpc = "done" /\ dcall.name = "save"
MarkDone == dpc = "done" /\ dcall.name \in {"mark_liked", "mark_bookmarked"}

\* the positions of the stored rows with the tweet_id of the batch's tweet p
StoredAt(rows, p) ==
    {k \in 1..Len(rows) : /\ dcall.batch[p].tweet_id # NULL
                          /\ rows[k].tweet_id = dcall.batch[p].tweet_id}

\* the tweets of the batch that make a new row
NewTweets ==
    {p \in 1..Len(dcall.batch) : StoredAt(before, p) = {}}

\* no tweet_id occurs twice in the batch
NoRepeatedId ==
    \A p, q \in 1..Len(dcall.batch) :
        (p # q /\ dcall.batch[p].tweet_id # NULL)
            => dcall.batch[p].tweet_id # dcall.batch[q].tweet_id

(***************************************************************************)
(* C7.  The table never holds two rows with the same non-null tweet_id.    *)
(* A save_tweets that stored its batch kept every row it found in place,   *)
(* with its id and tweet_id, and added one row for each tweet whose        *)
(* tweet_id was not stored (or is null) and none for the others; and a     *)
(* batch of distinct tweet_ids is stored whenever the database does not    *)
(* fail, be its tweet_ids stored already or not.                           *)
(***************************************************************************)
C7_OneRowPerTweetId ==
    /\ \A a, b \in 1..Len(table) :
          (a # b /\ table[a].tweet_id # NULL)
              => table[a].tweet_id # table[b].tweet_id
    /\ (SaveDone /\ saved > 0) =>
          /\ Len(table) = Len(before) + Cardinality(NewTweets)
          /\ \A k \in 1..Len(before) :
                /\ table[k].id = before[k].id
                /\ table[k].tweet_id = before[k].tweet_id
    /\ (SaveDone /\ dcall.batch # <<>> /\ ~faulted /\ unique_index
          /\ NoRepeatedId) => saved = Len(dcall.batch)

\* a batch with a stored and a new tweet_id has been saved
C7_Witness ==
    /\ SaveDone
    /\ saved = Len(dcall.batch)
    /\ \E p \in 1..Len(dcall.batch) : StoredAt(before, p) # {}
    /\ \E p \in 1..Len(dcall.batch) :
          dcall.batch[p].tweet_id # NULL /\ StoredAt(before, p) = {}

(***************************************************************************)
(* C8.  After a save_tweets that stored its batch, the row that had the    *)
(* tweet_id of a tweet of the batch is the row as it was, with likes,      *)
(* retweets, reply_count, quote_count and views of the tweet: every other  *)
(* column, is_liked, liked_at, is_bookmarked and bookmarked_at among them, *)
(* has the value it had.                                                   *)
(***************************************************************************)
C8_ConflictUpdatesCountersOnly ==
    (SaveDone /\ saved > 0) =>
        \A p \in 1..Len(dcall.batch) : \A k \in StoredAt(before, p) :
            table[k] = [before[k] EXCEPT
                          !.likes = dcall.batch[p].likes,
                          !.retweets = dcall.batch[p].retweets,
                          !.reply_count = dcall.batch[p].reply_count,
                          !.quote_count = dcall.batch[p].quote_count,
                          !.views = dcall.batch[p].views]

\* the tweet_id of a liked and bookmarked row has been saved again, with other
\* counters and another content
C8_Witness ==
    /\ SaveDone
    /\ saved > 0
    /\ \E p \in 1..Len(dcall.batch) : \E k \in StoredAt(before, p) :
          /\ before[k].is_liked
          /\ before[k].is_bookmarked
          /\ table[k].likes # before[k].likes
          /\ dcall.batch[p].content # before[k].content

(***************************************************************************)
(* C9.  As written: save_tweets returns a number; either len(tweets), and  *)
(* the batch is stored, or 0, and the table is as it was; an empty list    *)
(* returns 0 and makes no connection; the connection is closed when the    *)
(* call returns.  Violated: when the connection breaks in a statement or   *)
(* in the commit, the rollback of the except block raises and the call     *)
(* returns nothing.                                                        *)
(***************************************************************************)
C9_AllOrNothing ==
    SaveDone =>
        /\ dresult = "int"
        /\ \/ /\ saved = Len(dcall.batch)
              /\ Len(table) = Len(before) + Cardinality(NewTweets)
           \/ /\ saved = 0
              /\ table = before
        /\ (dcall.batch = <<>>) => (saved = 0 /\ connects = 0)
        /\ conn \in {"none", "closed"}

(***************************************************************************)
(* C10.  As written: mark_liked and mark_bookmarked return True or False;  *)
(* True exactly when a row had the key (the tweet_url if given, else the   *)
(* id) and the update is committed; with neither key they return False and *)
(* make no connection; when they return False no row has changed.          *)
(* Violated: when the connection breaks in the UPDATE or in the commit,    *)
(* the rollback of the except block raises and the call returns nothing.   *)
(***************************************************************************)
C10_MarkResult ==
    MarkDone =>
        /\ dresult \in {"True", "False"}
        /\ (dresult = "True") <=>
              /\ \E k \in 1..Len(before) : Matches(before[k])
              /\ table = [k \in 1..Len(before) |->
                            IF Matches(before[k]) THEN Marked(before[k])
                            ELSE before[k]]
              /\ ~faulted
        /\ (dresult = "False") => table = before
        /\ Falsy(dcall.tweet_url, dcall.tweet_id) => connects = 0

(***************************************************************************)
(* C19.  Every record parse_ocr_to_tweets returns has content; there is    *)
(* one record for each handle line that has a content line before the next *)
(* handle line or the end of the text and none for the other handle lines, *)
(* so there are at most as many records as handle lines.                   *)
(***************************************************************************)
C19_HandleLines == {k \in 1..Len(lines) : C2_IsHandle(lines, k)}

C19_RecordsHaveContent ==
    ppc = "done" =>
        /\ \A k \in 1..Len(tweets) : tweets[k].content # <<>>
        /\ Len(tweets) =
              Cardinality({k \in C19_HandleLines :
                              C2_Segment(lines, k + 1) # <<>>})
        /\ Len(tweets) <= Cardinality(C19_HandleLines)

\* a text with a handle line that has no content line and one that has: one
\* record
C19_Witness ==
    /\ ppc = "done"
    /\ Len(tweets) = 1
    /\ \E k \in C19_HandleLines : C2_Segment(lines, k + 1) = <<>>
    /\ \E k \in C19_HandleLines : C2_Segment(lines, k + 1) # <<>>

(***************************************************************************)
(* C11.  As written: capture_feed returns None or a text that is not       *)
(* empty, whatever fails.  Violated: browser.contexts[0], new_page() and   *)
(* set_viewport_size() are in no try, and neither is the launch of Chrome  *)
(* in ensure_chrome_cdp: when one of them raises, capture_feed returns     *)
(* nothing.                                                                *)
(***************************************************************************)
C11_NoneOrText ==
    (bpc = "done" /\ cmd.name = "capture") =>
        /\ result \in {"None", "str"}
        /\ result = "str" => feed_text # <<>>

(***************************************************************************)
(* C12.  A command line that main() has accepted ends with status 0 when   *)
(* its operation reported success (True; for the capture, a text that is   *)
(* not empty) and with status 1 in every other case: the operation         *)
(* returned False or None, raised, or was not called because the text to   *)
(* post is missing or blank.                                               *)
(***************************************************************************)
C12_Success(p) ==
    \/ p.name \in {"ensure", "like", "unlike", "bookmark", "unbookmark",
                   "post", "v2post"} /\ p.result = "True"
    \/ p.name = "capture" /\ p.result = "str" /\ p.text # <<>>

C13_Has(e) == \E k \in 1..Len(trace) : trace[k] = e

C13_OpenPortLeftAlone ==
    /\ C13_Has("entry_open") =>
          /\ ~C13_Has("kill")
          /\ ~C13_Has("launch")
          /\ kills = 0 /\ launches = 0 /\ polls = <<>>
          /\ ensured = "True"
    /\ \A k \in 1..Len(trace) :
          trace[k] \in {"kill", "launch"} =>
              \E j \in 1..(k - 1) : trace[j] = "entry_closed"

\* the port was open at entry: ensure_chrome_cdp has returned True, the
\* command goes on
C13_Witness ==
    /\ bpc = "connect"
    /\ trace = <<"entry_open">>
    /\ ensured = "True"
    /\ kills = 0
    /\ launches = 0

(***************************************************************************)
(* C14.  As written: a call opens at most one page, and a page it opened   *)
(* is closed when the call returns, however it returns.  Violated: in      *)
(* capture_feed set_viewport_size() comes after new_page() and before the  *)
(* try whose finally closes the page; when it raises, the page stays open. *)
(***************************************************************************)
C14_Opened ==
    Cardinality({k \in 1..Len(trace) : trace[k] = "new_page"})

C14_PageClosed ==
    /\ C14_Opened <= 1
    /\ (bpc = "done" /\ C14_Opened = 1) =>
          /\ page = "closed"
          /\ trace[Len(trace)] = "close"

(***************************************************************************)
(* C15.  What the first look of the running command at the page found.     *)
(***************************************************************************)
C15_FirstSight ==
    LET ks == {k \in 1..Len(trace) : trace[k] \in {"seen", "unseen"}}
    IN  IF ks = {} THEN "none"
        ELSE trace[CHOOSE k \in ks : \A j \in ks : k <= j]

\* the state of the control the command asks for
C15_Target(name) == name \in MarkCmds

\* the running command is the command before it, run again
C15_Again ==
    /\ cmd.name \in MarkCmds \cup UnmarkCmds
    /\ cmd.name = prev.name
    /\ cmd.url = prev.url

\* the page of the running command was asked for and no call on it failed
\* for a reason outside the code
C15_Unfailing ==
    /\ \E k \in 1..Len(trace) : trace[k] = "goto"
    /\ \A k \in 1..Len(trace) : trace[k] # "fault"

\* a command on a tweet that is in the state it asks for returns True
C15_TrueWhenThere ==
    (bpc = "done" /\ C15_Unfailing /\ clicks = 0) =>
        /\ (cmd.name \in MarkCmds /\ marked[Kind(cmd.name)])
              => result = "True"
        /\ (cmd.name \in UnmarkCmds /\ ~marked[Kind(cmd.name)])
              => result = "True"

\* a command that finds the tweet in the state it asks for returns True and
\* clicks nothing, and the command run again does not undo what is there
C15_NoClickWhenThere ==
    /\ (bpc = "done" /\ cmd.name \in MarkCmds /\ C15_FirstSight = "seen")
          => (result = "True" /\ clicks = 0)
    /\ (bpc = "done" /\ cmd.name \in UnmarkCmds /\ C15_FirstSight = "unseen")
          => (result = "True" /\ clicks = 0)
    /\ (C15_Again /\ prev.marked[Kind(cmd.name)] = C15_Target(cmd.name))
          => marked[Kind(cmd.name)] = C15_Target(cmd.name)

(***************************************************************************)
(* C15.  As written: like_tweet / bookmark_tweet on a tweet that is marked *)
(* and unlike_tweet / unbookmark_tweet on one that is not return True      *)
(* without a click, so the same command run twice in succession clicks at  *)
(* most once in all and does not toggle the state back.  Violated:         *)
(* like_tweet waits for the like control before it looks for unlike, and   *)
(* on the page of a liked tweet that shows no other tweet the wait times   *)
(* out and the call returns False (bookmark_tweet likewise); and when the  *)
(* site does not take the click of the first run, the second run finds the *)
(* tweet as it was and clicks again.                                       *)
(***************************************************************************)
C15_TwiceClicksOnce ==
    /\ C15_TrueWhenThere
    /\ C15_NoClickWhenThere
    /\ C15_Again => prev.clicks + clicks <= 1

(***************************************************************************)
(* C15, what holds of the code: a command whose look at the page finds the *)
(* tweet in the state it asks for returns True without a click; each run   *)
(* clicks at most once; and the same command run twice in succession       *)
(* clicks at most once in all when the first run left the tweet in the     *)
(* state it asks for.                                                      *)
(***************************************************************************)
C15_TwiceClicksOnceWhenTaken ==
    /\ C15_NoClickWhenThere
    /\ clicks <= 1
    /\ (C15_Again /\ prev.marked[Kind(cmd.name)] = C15_Target(cmd.name))
          => prev.clicks + clicks <= 1

\* like_tweet has clicked and returned True, and like_tweet on the same URL
\* has returned True without a click
C15_Witness ==
    /\ bpc = "done"
    /\ C15_Again
    /\ cmd.name = "like"
    /\ prev.clicks = 1
    /\ prev.result = "True"
    /\ C15_FirstSight = "seen"
    /\ clicks = 0
    /\ result = "True"

(***************************************************************************)
(* C16.  like_tweet and bookmark_tweet return True only when a look at the *)
(* page found the unlike / removeBookmark control, before the click or     *)
(* after it; when the look after the click does not find it they return    *)
(* False.                                                                  *)
(***************************************************************************)
C16_TrueOnlyIfSeen ==
    (bpc = "done" /\ cmd.name \in MarkCmds) =>
        /\ result = "True" =>
              \E k \in 1..Len(trace) : trace[k] = "seen"
        /\ (\E k \in 2..Len(trace) :
                trace[k - 1] = "click" /\ trace[k] = "unseen")
              => result = "False"

\* like_tweet clicked, the control did not show after the click: False
C16_Witness ==
    /\ bpc = "done"
    /\ cmd.name = "like"
    /\ clicks = 1
    /\ \E k \in 2..Len(trace) : trace[k - 1] = "click" /\ trace[k] = "unseen"
    /\ result = "False"


(***************************************************************************)
(* C17.  As written: like_tweet, unlike_tweet, bookmark_tweet and          *)
(* unbookmark_tweet given a URL that holds no "/status/<digits>" return    *)
(* False, and have not connected over CDP, opened a page, navigated or     *)
(* clicked.  Violated: ensure_chrome_cdp() is called before the URL is     *)
(* looked at, and when its pkill or its launch of Chrome raises, the call  *)
(* ends with the exception and returns nothing.                            *)
(***************************************************************************)
C17_Untouched ==
    /\ \A k \in 1..Len(trace) :
          trace[k] \notin {"connect", "new_page", "goto", "click"}
    /\ page = "none"
    /\ clicks = 0

C17_InvalidUrlTouchesNothing ==
    (/\ bpc = "done"
     /\ cmd.name \in MarkCmds \cup UnmarkCmds
     /\ extract_tweet_id(cmd.url) = <<>>)
        => (result = "False" /\ C17_Untouched)


(***************************************************************************)
(* C18.  As written: a post_tweet call clicks the send button at most      *)
(* once, after the text was filled in and, when an image was given, after  *)
(* the image was found and attached; given a reply URL that holds no tweet *)
(* id, or an image that does not exist, it returns False and has not       *)
(* clicked send.  Violated: ensure_chrome_cdp(), browser.contexts[0] and   *)
(* context.new_page() come before the try in which the reply URL and the   *)
(* image are looked at; when one of them raises, the call ends with the    *)
(* exception and returns nothing.                                          *)
(***************************************************************************)
C18_Sends ==
    Cardinality({k \in 1..Len(trace) : trace[k] = "send"})

\* the running post_tweet call was given a reply URL with no tweet id in it,
\* or an image that is not there
C18_BadInput ==
    \/ cmd.reply_to # <<>> /\ extract_tweet_id(cmd.reply_to) = <<>>
    \/ cmd.image = "missing"

\* send is clicked once at most, after the fill and the attachment
C18_SendAfterFill ==
    cmd.name = "post" =>
        /\ C18_Sends <= 1
        /\ \A k \in 1..Len(trace) : trace[k] = "send" =>
              /\ \E j \in 1..(k - 1) : trace[j] = "fill"
              /\ cmd.image # "none" =>
                    /\ cmd.image = "exists"
                    /\ \E j \in 1..(k - 1) : trace[j] = "attach"

C18_SendOnceAfterFill ==
    /\ C18_SendAfterFill
    /\ (/\ bpc = "done"
        /\ cmd.name = "post"
        /\ cmd.text = "ok"
        /\ C18_BadInput)
          => (result = "False" /\ C18_Sends = 0)

====
